---- MODULE Spec2Model ----
(***************************************************************************)
(* The resize gesture handlers of the story editor's ResizableBox wrapper  *)
(* (assets/src/components/resizable-box/index.js): the module-level        *)
(* session variables, the three handlers and the DOM they read and write;  *)
(* and the two callbacks of assets/src/amp-story-editor-blocks.js that set *)
(* the editor's default block name.                                        *)
(*                                                                         *)
(* JavaScript numbers are idealised as exact rationals n/d in lowest terms *)
(* with d > 0; the record with d = 0 is NaN.  `undefined` used as a number *)
(* behaves like NaN in every expression of the handlers (undefined + x is  *)
(* NaN, !undefined and !NaN are both true, parseInt(undefined) is NaN), so *)
(* an unset numeric prop is the NaN record too.                            *)
(***************************************************************************)
EXTENDS Integers, Sequences, FiniteSets, TLC

\* ------------------------------------------------------------- bounds
\* Pointer coordinates an event may carry are 0, 12, ..., 12 * MaxCoord.
MaxCoord == 1
\* Gestures started in one behaviour, a call out of protocol counting as one
\* (each gesture moves a rotated block a little further, so the positions
\* reached are otherwise unbounded).
MaxGestures == 2
\* Calls of setDefaultBlockName followed in one behaviour.
MaxSetCalls == 4

\* ------------------------------------------------------------ numbers
NaN == [n |-> 0, d |-> 0]
Num(i) == [n |-> i, d |-> 1]
IsNaN(a) == a.d = 0
Abs(i) == IF i < 0 THEN -i ELSE i

RECURSIVE GCD(_, _)
GCD(a, b) == IF b = 0 THEN a ELSE GCD(b, a % b)

\* n/d with d # 0, in lowest terms with a positive denominator.
Norm(n, d) ==
    LET s == IF d < 0 THEN -1 ELSE 1
        g == GCD(Abs(n), Abs(d))
    IN  [n |-> (s * n) \div g, d |-> (s * d) \div g]

Add(a, b) == IF IsNaN(a) \/ IsNaN(b) THEN NaN ELSE Norm(a.n * b.d + b.n * a.d, a.d * b.d)
Sub(a, b) == IF IsNaN(a) \/ IsNaN(b) THEN NaN ELSE Norm(a.n * b.d - b.n * a.d, a.d * b.d)
Mul(a, b) == IF IsNaN(a) \/ IsNaN(b) THEN NaN ELSE Norm(a.n * b.n, a.d * b.d)
\* x / 0 is +-Infinity in JavaScript for x # 0; no handler divides by zero for the
\* sizes of this model (every minHeight is positive), so only 0/0 = NaN is kept.
Div(a, b) == IF IsNaN(a) \/ IsNaN(b) \/ b.n = 0 THEN NaN ELSE Norm(a.n * b.d, a.d * b.n)
\* Comparisons with NaN are false.
Le(a, b) == ~IsNaN(a) /\ ~IsNaN(b) /\ a.n * b.d <= b.n * a.d
Lt(a, b) == ~IsNaN(a) /\ ~IsNaN(b) /\ a.n * b.d < b.n * a.d
\* JavaScript truthiness of a number (or undefined).
Truthy(a) == ~IsNaN(a) /\ a.n # 0
Max(a, b) == IF Le(a, b) THEN b ELSE a

\* parseInt( v, 10 ) of a number, or of a string such as '12.5%' or '250.7':
\* the integer part, truncated toward zero; NaN stays NaN.
parseInt(a) ==
    IF IsNaN(a) THEN NaN
    ELSE Num(IF a.n >= 0 THEN a.n \div a.d ELSE -((-a.n) \div a.d))

\* ------------------------------------------------- the blocks on a page
\* Three mounted ResizableBox instances and the DOM around each.  NoElement is
\* JavaScript's null / undefined for an element reference.
NoElement == 0
Elements == {1, 2, 3}

\* The props of each instance (blockName, ampFitText, angle, width, height,
\* minWidth, minHeight) and the DOM facts the handlers read: the initial
\* style.top / style.left percentage of the enclosing .wp-block, its rendered
\* clientWidth / clientHeight, the scrollWidth / scrollHeight of the text
\* element inside it, whether the image's resizable wrapper exists.
\* Angle 37 stands for arctan(3/4) = 36.87 degrees, whose cosine and sine are
\* the rationals 4/5 and 3/5.
Mounted ==
  [e \in Elements |->
    CASE e = 1 -> [ blockName |-> "amp/amp-story-text", ampFitText |-> FALSE,
                    angle |-> 0, width |-> Num(50), height |-> Num(50),
                    minWidth |-> Num(45), minHeight |-> Num(45),
                    top |-> Num(10), left |-> Num(20),
                    clientWidth |-> Num(50), clientHeight |-> Num(50),
                    scrollWidth |-> Num(48), scrollHeight |-> Num(55),
                    hasWrapper |-> FALSE ]
      [] e = 2 -> [ blockName |-> "amp/amp-story-post-title", ampFitText |-> TRUE,
                    angle |-> 37, width |-> Num(100), height |-> Num(64),
                    minWidth |-> Num(95), minHeight |-> Num(50),
                    top |-> Num(30), left |-> Num(40),
                    clientWidth |-> Num(100), clientHeight |-> Num(64),
                    scrollWidth |-> Num(90), scrollHeight |-> Num(20),
                    hasWrapper |-> FALSE ]
      [] e = 3 -> [ blockName |-> "core/image", ampFitText |-> FALSE,
                    angle |-> 0, width |-> NaN, height |-> NaN,
                    minWidth |-> Num(45), minHeight |-> Num(45),
                    top |-> Num(5), left |-> Num(15),
                    clientWidth |-> Num(52), clientHeight |-> Num(50),
                    scrollWidth |-> NaN, scrollHeight |-> NaN,
                    hasWrapper |-> TRUE ] ]

Props(e) == Mounted[e]

Coords == {Num(12 * k) : k \in 0 .. MaxCoord}
\* The pointer of a move or end event: a position, or malformed (non-finite).
Pointers == (Coords \X Coords) \cup {<<NaN, NaN>>}
\* The handles the component enables (lines 67-72): each names its direction.
Directions == {"right", "bottom"}

VARIABLES
    \* module-level variables of resizable-box/index.js
    lastSeenX, lastSeenY, blockElement, blockElementTop, blockElementLeft,
    imageWrapper, textElement,
    \* the closure variables `width`, `height` of each mounted instance
    width, height,
    \* DOM: style of each .wp-block (top, left: percent) and of its resizable
    \* element (width, height: px); style of each image wrapper
    dom, wrapper,
    \* which handler of which instance ran last, the calls it made of the
    \* caller's onResizeStart and onResizeStop, whether it threw
    call, startCalls, stopCalls, threw,
    \* the calling environment: the instance whose gesture is in progress, the
    \* last move event of that gesture (none once it has ended), the block's
    \* position when it started,
    \* the number of gestures started, whether the last call broke the protocol
    active, lastMove, startDom, gestures, stray,
    \* amp-story-editor-blocks.js: the default block name of @wordpress/blocks,
    \* the selected block's client id in the core/editor store, whether the
    \* domReady callback is still to run, the callback that ran last, the names
    \* setDefaultBlockName has been called with
    defaultBlockName, selectedBlockClientId, domReadyPending, lastCallback, setCalls

vars == << lastSeenX, lastSeenY, blockElement, blockElementTop, blockElementLeft,
           imageWrapper, textElement, width, height, dom, wrapper,
           call, startCalls, stopCalls, threw, active, lastMove, startDom, gestures, stray,
           defaultBlockName, selectedBlockClientId, domReadyPending, lastCallback, setCalls >>

editorVars == << defaultBlockName, selectedBlockClientId, domReadyPending,
                 lastCallback, setCalls >>

boxVars == << lastSeenX, lastSeenY, blockElement, blockElementTop, blockElementLeft,
              imageWrapper, textElement, width, height, dom, wrapper,
              call, startCalls, stopCalls, threw, active, lastMove, startDom, gestures, stray >>

envVars == << active, lastMove, startDom, gestures, stray >>

moduleVars == << lastSeenX, lastSeenY, blockElement, blockElementTop,
                 blockElementLeft, imageWrapper, textElement >>

NoCall == [op |-> "none", el |-> NoElement]
\* The default block name before this module has set one.
NoBlockName == "undefined"
NoMove == [x |-> NaN, y |-> NaN, dir |-> "none"]

Init ==
    /\ lastSeenX = Num(0)
    /\ lastSeenY = Num(0)
    /\ blockElement = NoElement
    /\ blockElementTop = NaN
    /\ blockElementLeft = NaN
    /\ imageWrapper = NoElement
    /\ textElement = NoElement
    /\ width = [e \in Elements |-> Props(e).width]
    /\ height = [e \in Elements |-> Props(e).height]
    /\ dom = [e \in Elements |->
                [top |-> Props(e).top, left |-> Props(e).left,
                 width |-> Props(e).width, height |-> Props(e).height]]
    /\ wrapper = [e \in Elements |-> [width |-> NaN, height |-> NaN]]
    /\ call = NoCall
    /\ startCalls = << >>
    /\ stopCalls = << >>
    /\ threw = FALSE
    /\ active = NoElement
    /\ lastMove = NoMove
    /\ startDom = [top |-> NaN, left |-> NaN]
    /\ gestures = 0
    /\ stray = FALSE
    /\ defaultBlockName = NoBlockName
    /\ selectedBlockClientId = NoElement
    /\ domReadyPending = TRUE
    /\ lastCallback = "none"
    /\ setCalls = << >>

\* ------------------------------------------ stories-editor helpers
\* The page the percentages are relative to.
ContainerWidth == 800
ContainerHeight == 600

\* BLOCKS_WITH_TEXT_SETTINGS of stories-editor/constants.
BLOCKS_WITH_TEXT_SETTINGS ==
    { "amp/amp-story-text", "amp/amp-story-post-title",
      "amp/amp-story-post-author", "amp/amp-story-post-date" }

\* getRadianFromDeg( angle ): the angle as a direction, given by its cosine and
\* sine (deg * PI / 180 has no exact value; every use of it is cos or sin).
getRadianFromDeg(angle) ==
    CASE angle = 0  -> [cos |-> Num(1), sin |-> Num(0)]
      [] angle = 37 -> [cos |-> Norm(4, 5), sin |-> Norm(3, 5)]
      [] angle = 90 -> [cos |-> Num(0), sin |-> Num(1)]

getPercentageFromPixels(axis, pixelValue) ==
    IF axis = "x" THEN Mul(Div(pixelValue, Num(ContainerWidth)), Num(100))
    ELSE Mul(Div(pixelValue, Num(ContainerHeight)), Num(100))

getPixelsFromPercentage(axis, percentageValue) ==
    IF axis = "x" THEN Div(Mul(percentageValue, Num(ContainerWidth)), Num(100))
    ELSE Div(Mul(percentageValue, Num(ContainerHeight)), Num(100))

\* getBlockPositioning( width, height, radianAngle ): the offset of the rotated
\* rectangle's anchor, left = (w cos - h sin) / 2, top = (w sin + h cos) / 2.
getBlockPositioning(w, h, radianAngle) ==
    [ left |-> Div(Sub(Mul(w, radianAngle.cos), Mul(h, radianAngle.sin)), Num(2)),
      top  |-> Div(Add(Mul(w, radianAngle.sin), Mul(h, radianAngle.cos)), Num(2)) ]

\* getResizedWidthAndHeight( event, angle, lastSeenX, lastSeenY, direction ):
\* the pointer delta rotated by -angle into the rectangle's frame; only the
\* dragged edges take their component.
getResizedWidthAndHeight(x, y, angle, seenX, seenY, direction) ==
    LET dx == Sub(x, seenX)
        dy == Sub(y, seenY)
        r  == getRadianFromDeg(angle)
        localX == Add(Mul(dx, r.cos), Mul(dy, r.sin))
        localY == Sub(Mul(dy, r.cos), Mul(dx, r.sin))
    IN  [ deltaW |-> IF direction \in {"right", "bottomRight"} THEN localX ELSE Num(0),
          deltaH |-> IF direction \in {"bottom", "bottomRight"} THEN localY ELSE Num(0) ]

\* --------------------------------------- the component, per instance
isImage(e) == Props(e).blockName = "core/image"
isBlockWithText(e) == Props(e).blockName \in BLOCKS_WITH_TEXT_SETTINGS

\* blockElement.querySelector( 'figure .components-resizable-box__container' ):
\* the image wrapper of block b (wrappers are named by their block), or null.
queryImageWrapper(b) == IF Props(b).hasWrapper THEN b ELSE NoElement

\* The switch of onResizeStart: the text element of block b (named by its
\* block) for the four block names it knows, the old value for any other.
queryTextElement(b, old) ==
    IF Props(b).blockName \in { "amp/amp-story-text", "amp/amp-story-post-title",
                                "amp/amp-story-post-author", "amp/amp-story-post-date" }
    THEN b ELSE old

\* The session the module-level variables hold.
Session ==
    [ lastSeenX |-> lastSeenX, lastSeenY |-> lastSeenY,
      blockElement |-> blockElement,
      blockElementTop |-> blockElementTop, blockElementLeft |-> blockElementLeft,
      imageWrapper |-> imageWrapper, textElement |-> textElement ]

\* notifiedStart with the call made ahead of the captures.
notifiedStartFirst(before, after) == [args |-> << >>, session |-> before]

\* The call of the caller's onResizeStart, line 119: its arguments and the
\* session it is made in, given the session before the handler ran and the one
\* after its captures (lines 94-117).
notifiedStart(before, after) == [args |-> << >>, session |-> after]

\* onResizeStart( event, direction, element ) of instance e.
onResizeStart(e, x, y) ==
    /\ lastSeenX' = x
    /\ lastSeenY' = y
    /\ blockElement' = e
    /\ blockElementTop' = dom[e].top
    /\ blockElementLeft' = dom[e].left
    /\ imageWrapper' = IF isImage(e) THEN queryImageWrapper(e) ELSE imageWrapper
    /\ textElement' = IF isBlockWithText(e) /\ ~Props(e).ampFitText
                      THEN queryTextElement(e, textElement)
                      ELSE textElement
    /\ startCalls' = << notifiedStart(Session, Session') >>
    /\ stopCalls' = << >>
    /\ threw' = FALSE
    /\ call' = [op |-> "start", el |-> e]
    /\ UNCHANGED << width, height, dom, wrapper >>

\* appliedSize without the minimum.
appliedSizeUnclamped(base, delta, min) == Add(base, delta)

\* The size a move applies: lines 129-130.
appliedSize(base, delta, min) ==
    IF Le(min, Add(base, delta)) THEN Add(base, delta) ELSE min

\* The threshold of the small-height fix, line 150.
SmallHeight == 60

\* scaledLeft without the small-height fix.
scaledLeftNever(diffLeft, appliedHeight) == diffLeft

\* The horizontal correction after the small-height fix, lines 150-153.
scaledLeft(diffLeft, appliedHeight) ==
    IF Lt(appliedHeight, Num(SmallHeight))
    THEN Div(diffLeft, Div(Num(SmallHeight), appliedHeight))
    ELSE diffLeft

\* The style.left / style.top percentages a move with angle # 0 writes to
\* blockElement: lines 133-161.
updatedPosition(w, h, appliedWidth, appliedHeight, angle, elLeft, elTop) ==
    LET radianAngle == getRadianFromDeg(angle)
        initialPosition == getBlockPositioning(w, h, radianAngle)
        resizedPosition == getBlockPositioning(appliedWidth, appliedHeight, radianAngle)
        diffLeft == Sub(resizedPosition.left, initialPosition.left)
        diffTop  == Sub(resizedPosition.top, initialPosition.top)
        originalLeft == getPixelsFromPercentage("x", parseInt(elLeft))
        originalTop  == getPixelsFromPercentage("y", parseInt(elTop))
        updatedLeft == Sub(originalLeft, scaledLeft(diffLeft, appliedHeight))
        updatedTop  == Add(originalTop, diffTop)
    IN  [ left |-> getPercentageFromPixels("x", updatedLeft),
          top  |-> getPercentageFromPixels("y", updatedTop) ]

\* originalPercent taking the block's current percentages.
originalPercentCurrent(captured, current) == current

\* The left and top percentages a move corrects, lines 144-145: the ones
\* onResizeStart captured, whatever the block's style holds by now.
originalPercent(captured, current) == captured

\* Whether a move of instance e takes its base size from the rendered block
\* (media inserted from URL): line 125.
fromRendered(e) == isImage(e) /\ ~Truthy(width[e]) /\ ~Truthy(height[e])

\* isRotated without the test of the angle.
isRotatedAlways(e) == TRUE

\* Whether a move of instance e corrects the block's position: line 132.
isRotated(e) == Props(e).angle # 0

\* elementResized with the check of onResizeStop made in the move: a size below
\* the text element's scroll size is not applied.
elementResizedUnlessOverflow(e, d0, appliedWidth, appliedHeight) ==
    IF /\ textElement # NoElement
       /\ \/ Lt(appliedWidth, Props(textElement).scrollWidth)
          \/ Lt(appliedHeight, Props(textElement).scrollHeight)
    THEN d0
    ELSE [d0 EXCEPT ![e].width = appliedWidth, ![e].height = appliedHeight]

\* The DOM after the move has set the size of instance e's element: lines
\* 164-165.
elementResized(e, d0, appliedWidth, appliedHeight) ==
    [d0 EXCEPT ![e].width = appliedWidth, ![e].height = appliedHeight]

\* resizesWrapper without the test that the instance is an image.
resizesWrapperCached(e) == imageWrapper # NoElement

\* Whether the move resizes the image wrapper too: line 167.
resizesWrapper(e) == imageWrapper # NoElement /\ isImage(e)

\* onResize( event, direction, element ) of instance e.  Reading a property of
\* a null blockElement throws a TypeError, which ends the handler where it is.
onResize(e, x, y, direction) ==
    LET d == getResizedWidthAndHeight(x, y, Props(e).angle, lastSeenX, lastSeenY, direction)
        throwsAtRead == fromRendered(e) /\ blockElement = NoElement
        w == IF fromRendered(e) /\ ~throwsAtRead THEN Props(blockElement).clientWidth ELSE width[e]
        h == IF fromRendered(e) /\ ~throwsAtRead THEN Props(blockElement).clientHeight ELSE height[e]
        appliedWidth == appliedSize(w, d.deltaW, Props(e).minWidth)
        appliedHeight == appliedSize(h, d.deltaH, Props(e).minHeight)
        rotated == isRotated(e)
        throwsAtWrite == rotated /\ blockElement = NoElement
        from == originalPercent([left |-> blockElementLeft, top |-> blockElementTop],
                                [left |-> dom[blockElement].left,
                                 top |-> dom[blockElement].top])
        pos == updatedPosition(w, h, appliedWidth, appliedHeight, Props(e).angle,
                               from.left, from.top)
        moved == IF rotated /\ ~throwsAtWrite
                 THEN [dom EXCEPT ![blockElement].left = pos.left,
                                  ![blockElement].top = pos.top]
                 ELSE dom
    IN  /\ call' = [op |-> "resize", el |-> e]
        /\ startCalls' = << >>
        /\ stopCalls' = << >>
        /\ UNCHANGED moduleVars
        /\ IF throwsAtRead \/ throwsAtWrite
           THEN /\ threw' = TRUE
                /\ UNCHANGED << width, height, dom, wrapper >>
           ELSE /\ threw' = FALSE
                /\ width' = [width EXCEPT ![e] = w]
                /\ height' = [height EXCEPT ![e] = h]
                /\ dom' = elementResized(e, moved, appliedWidth, appliedHeight)
                /\ wrapper' = IF resizesWrapper(e)
                              THEN [wrapper EXCEPT ![imageWrapper] =
                                      [width |-> appliedWidth, height |-> appliedHeight]]
                              ELSE wrapper

\* preventsResizing without the check.
preventsResizingNever(appliedWidth, appliedHeight) == FALSE

\* Whether onResizeStop returns without reporting: lines 78-84.
preventsResizing(appliedWidth, appliedHeight) ==
    /\ textElement # NoElement
    /\ \/ Lt(appliedWidth, Props(textElement).scrollWidth)
       \/ Lt(appliedHeight, Props(textElement).scrollHeight)

\* The size onResizeStop reports for a base size and a delta: lines 75-76.
stoppedSize(base, delta) == Add(base, delta)

\* onResizeStop( event, direction ) of instance e.
onResizeStop(e, x, y, direction) ==
    LET d == getResizedWidthAndHeight(x, y, Props(e).angle, lastSeenX, lastSeenY, direction)
        appliedWidth == stoppedSize(width[e], d.deltaW)
        appliedHeight == stoppedSize(height[e], d.deltaH)
        prevented == preventsResizing(appliedWidth, appliedHeight)
        throws == ~prevented /\ blockElement = NoElement
    IN  /\ call' = [op |-> "stop", el |-> e]
        /\ startCalls' = << >>
        /\ threw' = throws
        /\ stopCalls' =
              IF prevented \/ throws THEN << >>
              ELSE << [ width |-> parseInt(appliedWidth),
                        height |-> parseInt(appliedHeight),
                        positionTop |-> parseInt(dom[blockElement].top),
                        positionLeft |-> parseInt(dom[blockElement].left) ] >>
        /\ UNCHANGED << moduleVars, width, height, dom, wrapper >>

\* A render of instance e: the component function runs again and the handlers
\* of the new render close over `width`, `height` read from the props.
Render(e) ==
    /\ width' = [width EXCEPT ![e] = Props(e).width]
    /\ height' = [height EXCEPT ![e] = Props(e).height]
    /\ UNCHANGED << moduleVars, dom, wrapper, call, startCalls, stopCalls, threw, envVars >>
    /\ UNCHANGED editorVars

\* ------------------------------------------------------ specifications
\* The calling environment's protocol: start, then moves, then end, of one
\* instance at a time.
GestureStart(e, x, y) ==
    /\ active = NoElement
    /\ gestures < MaxGestures
    /\ onResizeStart(e, x, y)
    /\ active' = e
    /\ lastMove' = NoMove
    /\ startDom' = [top |-> dom[e].top, left |-> dom[e].left]
    /\ gestures' = gestures + 1
    /\ stray' = FALSE
    /\ UNCHANGED editorVars

GestureMove(e, x, y, direction) ==
    /\ active = e
    /\ lastMove' = [x |-> x, y |-> y, dir |-> direction]
    /\ stray' = FALSE
    /\ UNCHANGED << active, startDom, gestures >>
    /\ UNCHANGED editorVars
    /\ onResize(e, x, y, direction)

GestureEnd(e, x, y, direction) ==
    /\ active = e
    /\ active' = NoElement
    /\ lastMove' = NoMove
    /\ stray' = FALSE
    /\ UNCHANGED << startDom, gestures >>
    /\ UNCHANGED editorVars
    /\ onResizeStop(e, x, y, direction)

Next ==
    \E e \in Elements :
        \/ \E x \in Coords, y \in Coords : GestureStart(e, x, y)
        \/ \E p \in Pointers, direction \in Directions : GestureMove(e, p[1], p[2], direction)
        \/ \E p \in Pointers, direction \in Directions : GestureEnd(e, p[1], p[2], direction)
        \/ Render(e)

Spec == Init /\ [][Next]_vars

\* Calls that break the protocol: a start while a gesture is in progress, a
\* move or an end while none is.  The gesture in progress, if any, stays as
\* the environment knows it.
StrayStart(e, x, y) ==
    /\ active # NoElement
    /\ gestures < MaxGestures
    /\ onResizeStart(e, x, y)
    /\ gestures' = gestures + 1
    /\ stray' = TRUE
    /\ UNCHANGED << active, lastMove, startDom >>
    /\ UNCHANGED editorVars

StrayMove(e, x, y, direction) ==
    /\ active = NoElement
    /\ gestures < MaxGestures
    /\ onResize(e, x, y, direction)
    /\ gestures' = gestures + 1
    /\ stray' = TRUE
    /\ UNCHANGED << active, lastMove, startDom >>
    /\ UNCHANGED editorVars

StrayEnd(e, x, y, direction) ==
    /\ active = NoElement
    /\ gestures < MaxGestures
    /\ onResizeStop(e, x, y, direction)
    /\ gestures' = gestures + 1
    /\ stray' = TRUE
    /\ UNCHANGED << active, lastMove, startDom >>
    /\ UNCHANGED editorVars

NextAny ==
    \/ Next
    \/ \E e \in Elements :
        \/ \E x \in Coords, y \in Coords : StrayStart(e, x, y)
        \/ \E p \in Pointers, direction \in Directions : StrayMove(e, p[1], p[2], direction)
        \/ \E p \in Pointers, direction \in Directions : StrayEnd(e, p[1], p[2], direction)

SpecAny == Init /\ [][NextAny]_vars

\* ------------------------------------------- amp-story-editor-blocks.js
\* setDefaultBlockName( name ) of @wordpress/blocks.
setDefaultBlockName(name) ==
    /\ defaultBlockName' = name
    /\ setCalls' = Append(setCalls, name)

\* The callback given to domReady, lines 22-24.
domReadyCallback == setDefaultBlockName("amp/amp-story-page")

\* The callback given to subscribe, lines 25-27; selected is what
\* getSelectedBlockClientId() returns when it runs.
subscribeCallback(selected) ==
    setDefaultBlockName(IF selected # NoElement THEN "core/paragraph"
                        ELSE "amp/amp-story-page")

\* The DOM becomes ready: the domReady callback runs, once.
DomReady ==
    /\ domReadyPending
    /\ Len(setCalls) < MaxSetCalls
    /\ domReadyCallback
    /\ domReadyPending' = FALSE
    /\ lastCallback' = "domReady"
    /\ UNCHANGED << selectedBlockClientId, boxVars >>

\* A store changes, leaving block b selected or (b = NoElement) none, and the
\* subscribed callback is notified.
StoreChange(b) ==
    /\ Len(setCalls) < MaxSetCalls
    /\ selectedBlockClientId' = b
    /\ subscribeCallback(b)
    /\ lastCallback' = "subscribe"
    /\ UNCHANGED << domReadyPending, boxVars >>

NextEditor ==
    \/ DomReady
    \/ \E b \in Elements \cup {NoElement} : StoreChange(b)

SpecEditor == Init /\ [][NextEditor]_vars

\* ------------------------------------------------------------ properties
\* Whether a gesture on instance e has an overflow target: a text block that
\* is not in auto-fit mode.
hasOverflowTarget(e) == isBlockWithText(e) /\ ~Props(e).ampFitText

\* Whether a pointer is well-formed.
Finite(x, y) == ~IsNaN(x) /\ ~IsNaN(y)

\* The delta of the last move event of the gesture in progress.
moveDelta ==
    getResizedWidthAndHeight(lastMove.x, lastMove.y, Props(call.el).angle,
                             lastSeenX, lastSeenY, lastMove.dir)

\* Whether a size is below the natural size of text element t.
BelowText(t, w, h) == Lt(w, Props(t).scrollWidth) \/ Lt(h, Props(t).scrollHeight)

\* The base size a move of instance e of the gesture in progress works from.
BaseWidth(e) == IF fromRendered(e) THEN Props(e).clientWidth ELSE width[e]
BaseHeight(e) == IF fromRendered(e) THEN Props(e).clientHeight ELSE height[e]

\* C1: during a gesture the overflow target is the one selected at that
\* gesture's start: the text element of the block being resized if it is a
\* text block outside auto-fit mode, none otherwise, whatever earlier gestures
\* acted on.
C1_OverflowTargetOfThisGesture ==
    active # NoElement =>
        textElement = IF hasOverflowTarget(active) THEN active ELSE NoElement

\* C2 as stated: every gesture end reports exactly one committed result.
C2_EveryEndCommits ==
    call.op = "stop" => Len(stopCalls) = 1

\* C2: a gesture end reports at most one committed result: none when the
\* cached overflow target's scroll width or height exceeds base + delta, one
\* otherwise.
C2_EndCommitsUnlessOverflow ==
    [][ \A e \in Elements, p \in Pointers, direction \in Directions :
          GestureEnd(e, p[1], p[2], direction) =>
            LET d == getResizedWidthAndHeight(p[1], p[2], Props(e).angle,
                                              lastSeenX, lastSeenY, direction)
                below == /\ textElement # NoElement
                         /\ BelowText(textElement, Add(width[e], d.deltaW),
                                      Add(height[e], d.deltaH))
            IN  Len(stopCalls') = IF below THEN 0 ELSE 1 ]_vars

\* A gesture end on a text block, with that block's text element cached, has
\* returned normally and reported nothing.
C2_Witness ==
    /\ call.op = "stop"
    /\ ~stray
    /\ hasOverflowTarget(call.el)
    /\ textElement = call.el
    /\ ~threw
    /\ stopCalls = << >>

\* C3 as stated: with an overflow target, a move whose base + delta is below
\* the target's natural width or height changes no size and no position.
C3_OverflowingMoveIsNoOp ==
    [][ \A e \in Elements, p \in Pointers, direction \in Directions :
          ( /\ GestureMove(e, p[1], p[2], direction)
            /\ hasOverflowTarget(e)
            /\ textElement = e
            /\ LET d == getResizedWidthAndHeight(p[1], p[2], Props(e).angle,
                                                 lastSeenX, lastSeenY, direction)
               IN  BelowText(e, Add(width[e], d.deltaW), Add(height[e], d.deltaH)) )
          => dom' = dom /\ wrapper' = wrapper ]_vars

\* C3: a move does not consult the overflow target: a well-formed move whose
\* base + delta is below the target's natural width or height applies its
\* preview like any other move (width max(base width + deltaW, minWidth),
\* height likewise), and a gesture end with such a size reports nothing.
C3_OverflowAppliesAtEndOnly ==
    [][ \A e \in Elements, p \in Pointers, direction \in Directions :
          LET d == getResizedWidthAndHeight(p[1], p[2], Props(e).angle,
                                            lastSeenX, lastSeenY, direction)
              below == /\ hasOverflowTarget(e)
                       /\ textElement = e
                       /\ BelowText(e, Add(width[e], d.deltaW), Add(height[e], d.deltaH))
          IN  /\ GestureMove(e, p[1], p[2], direction) /\ Finite(p[1], p[2]) /\ below =>
                  /\ dom'[e].width = Max(Add(width[e], d.deltaW), Props(e).minWidth)
                  /\ dom'[e].height = Max(Add(height[e], d.deltaH), Props(e).minHeight)
              /\ GestureEnd(e, p[1], p[2], direction) /\ below =>
                  stopCalls' = << >> ]_vars

\* A move of a text block has applied a preview that is below the text's
\* natural height and differs from the size the gesture started with.
C3_Witness ==
    /\ call.op = "resize"
    /\ active = call.el
    /\ hasOverflowTarget(call.el)
    /\ textElement = call.el
    /\ Finite(lastMove.x, lastMove.y)
    /\ BelowText(call.el, Add(width[call.el], moveDelta.deltaW),
                 Add(height[call.el], moveDelta.deltaH))
    /\ dom[call.el].width = Add(width[call.el], moveDelta.deltaW)
    /\ dom[call.el].width # Props(call.el).width

\* C4: when a gesture ends at the pointer of its last move, the committed
\* width and height are the previewed width and height truncated to integers,
\* and neither is below its minimum.
C4_EndCommitsLastPreview ==
    [][ \A e \in Elements, p \in Pointers, direction \in Directions :
          ( /\ GestureEnd(e, p[1], p[2], direction)
            /\ Finite(p[1], p[2])
            /\ lastMove = [x |-> p[1], y |-> p[2], dir |-> direction]
            /\ Len(stopCalls') = 1 )
          => /\ stopCalls'[1].width = parseInt(dom[e].width)
             /\ stopCalls'[1].height = parseInt(dom[e].height)
             /\ Le(Props(e).minWidth, stopCalls'[1].width)
             /\ Le(Props(e).minHeight, stopCalls'[1].height) ]_vars

\* C5: the preview a well-formed move applies has width
\* max(base width + deltaW, minWidth) and height
\* max(base height + deltaH, minHeight).
C5_PreviewIsClampedToMinimum ==
    [][ \A e \in Elements, p \in Pointers, direction \in Directions :
          GestureMove(e, p[1], p[2], direction) /\ Finite(p[1], p[2]) =>
            LET d == getResizedWidthAndHeight(p[1], p[2], Props(e).angle,
                                              lastSeenX, lastSeenY, direction)
            IN  /\ dom'[e].width = Max(Add(BaseWidth(e), d.deltaW), Props(e).minWidth)
                /\ dom'[e].height = Max(Add(BaseHeight(e), d.deltaH), Props(e).minHeight) ]_vars

\* A well-formed move whose delta drives the width below the minimum has
\* applied exactly the minimum width.
C5_Witness ==
    /\ call.op = "resize"
    /\ active = call.el
    /\ Finite(lastMove.x, lastMove.y)
    /\ Lt(Add(width[call.el], moveDelta.deltaW), Props(call.el).minWidth)
    /\ dom[call.el].width = Props(call.el).minWidth

\* C6: a start received while a gesture is in progress overwrites nothing of
\* the session the first start captured (start pointer, start top and left,
\* cached elements).
C6_NestedStartKeepsSession ==
    [][ \A e \in Elements, x \in Coords, y \in Coords :
          StrayStart(e, x, y) => UNCHANGED moduleVars ]_vars

\* C7: a well-formed move or end received while no gesture is in progress is
\* rejected: it applies no preview and reports no committed result.
C7_IdleMoveOrEndIsRejected ==
    [][ \A e \in Elements, p \in Pointers, direction \in Directions :
          ( /\ active = NoElement
            /\ Finite(p[1], p[2])
            /\ \/ StrayMove(e, p[1], p[2], direction)
               \/ StrayEnd(e, p[1], p[2], direction) )
          => /\ dom' = dom
             /\ wrapper' = wrapper
             /\ stopCalls' = << >> ]_vars

\* The top and left of every block.
Positions == [b \in Elements |-> << dom[b].top, dom[b].left >>]

C9_MalformedMoveIsAborted ==
    [][ \A e \in Elements, direction \in Directions :
          GestureMove(e, NaN, NaN, direction) =>
            /\ dom' = dom
            /\ wrapper' = wrapper
            /\ UNCHANGED moduleVars ]_vars

\* C10: the committed width and height of an image with no stored size are
\* the rendered width and height plus the final delta, as integers.
C10_UnsizedImageCommitsRenderedPlusDelta ==
    [][ \A e \in Elements, p \in Pointers, direction \in Directions :
          ( /\ GestureEnd(e, p[1], p[2], direction)
            /\ isImage(e)
            /\ ~Truthy(Props(e).width)
            /\ ~Truthy(Props(e).height)
            /\ Finite(p[1], p[2])
            /\ Len(stopCalls') = 1 )
          => LET d == getResizedWidthAndHeight(p[1], p[2], Props(e).angle,
                                               lastSeenX, lastSeenY, direction)
             IN  /\ stopCalls'[1].width = parseInt(Add(Props(e).clientWidth, d.deltaW))
                 /\ stopCalls'[1].height = parseInt(Add(Props(e).clientHeight, d.deltaH)) ]_vars

\* C11: a gesture start calls the caller's onResizeStart exactly once, with no
\* arguments, in the session the start has just captured (the start pointer,
\* the block's top and left, the image wrapper of an image, the text element
\* of a text block outside auto-fit mode), and applies no preview and reports
\* no committed result itself; no move and no end calls it.
C11_StartNotifiesOnceAfterCapture ==
    [][ /\ \A e \in Elements, x \in Coords, y \in Coords :
            GestureStart(e, x, y) =>
              /\ Len(startCalls') = 1
              /\ startCalls'[1].args = << >>
              /\ startCalls'[1].session.lastSeenX = x
              /\ startCalls'[1].session.lastSeenY = y
              /\ startCalls'[1].session.blockElement = e
              /\ startCalls'[1].session.blockElementTop = dom[e].top
              /\ startCalls'[1].session.blockElementLeft = dom[e].left
              /\ isImage(e) => startCalls'[1].session.imageWrapper = queryImageWrapper(e)
              /\ hasOverflowTarget(e) => startCalls'[1].session.textElement = e
              /\ dom' = dom
              /\ wrapper' = wrapper
              /\ stopCalls' = << >>
        /\ \A e \in Elements, p \in Pointers, direction \in Directions :
            \/ GestureMove(e, p[1], p[2], direction)
            \/ GestureEnd(e, p[1], p[2], direction)
            => startCalls' = << >> ]_vars

\* The start of a second gesture, at another pointer and on another block than
\* the first, has made its one call in the session it captured.
C11_Witness ==
    /\ call.op = "start"
    /\ active = call.el
    /\ gestures = 2
    /\ Len(startCalls) = 1
    /\ startCalls[1].session = Session
    /\ lastSeenX = Num(12)
    /\ blockElement = 3
    /\ imageWrapper = 3

\* Whether a number is an integer.
IsInteger(a) == ~IsNaN(a) /\ a.d = 1

\* C12: the result a gesture end with a well-formed pointer commits consists
\* of integers: width and height are base size + final delta truncated, and
\* positionTop and positionLeft are the block's top and left percentages, as the
\* moves left them, truncated.
C12_CommitIsTruncatedIntegers ==
    [][ \A e \in Elements, p \in Pointers, direction \in Directions :
          ( /\ GestureEnd(e, p[1], p[2], direction)
            /\ Finite(p[1], p[2])
            /\ Len(stopCalls') = 1 )
          => LET d == getResizedWidthAndHeight(p[1], p[2], Props(e).angle,
                                               lastSeenX, lastSeenY, direction)
                 r == stopCalls'[1]
             IN  /\ IsInteger(r.width) /\ IsInteger(r.height)
                 /\ IsInteger(r.positionTop) /\ IsInteger(r.positionLeft)
                 /\ r.width = parseInt(Add(width[e], d.deltaW))
                 /\ r.height = parseInt(Add(height[e], d.deltaH))
                 /\ r.positionTop = parseInt(dom[e].top)
                 /\ r.positionLeft = parseInt(dom[e].left) ]_vars

\* C13: a move of a gesture on an image whose wrapper was found leaves that
\* image's wrapper with the width and height it applied to the element; no
\* start, move or end of a gesture on a block that is not an image changes any
\* image wrapper, whatever wrapper an earlier gesture cached.
C13_WrapperFollowsImageOnly ==
    [][ /\ \A e \in Elements, p \in Pointers, direction \in Directions :
            /\ ( GestureMove(e, p[1], p[2], direction)
                 /\ isImage(e) /\ imageWrapper # NoElement )
               => /\ imageWrapper = queryImageWrapper(e)
                  /\ wrapper'[imageWrapper].width = dom'[e].width
                  /\ wrapper'[imageWrapper].height = dom'[e].height
            /\ ( ~isImage(e)
                 /\ \/ GestureMove(e, p[1], p[2], direction)
                    \/ GestureEnd(e, p[1], p[2], direction) )
               => wrapper' = wrapper
        /\ \A e \in Elements, x \in Coords, y \in Coords :
            GestureStart(e, x, y) /\ ~isImage(e) => wrapper' = wrapper ]_vars

\* A move of a gesture on a block that is not an image has applied a size while
\* the wrapper cached by an earlier gesture on the image still has the size
\* that gesture gave it and the image.
C13_Witness ==
    /\ call.op = "resize"
    /\ active = call.el
    /\ ~isImage(call.el)
    /\ imageWrapper = 3
    /\ ~IsNaN(wrapper[3].width)
    /\ wrapper[3].width = dom[3].width
    /\ wrapper[3].height = dom[3].height
    /\ dom[call.el].width # wrapper[3].width
    /\ dom[call.el].width # Props(call.el).width

\* The base size of a gesture on instance e: the stored size, or the rendered
\* size of an image that has none.
GestureBase(e) ==
    IF isImage(e) /\ ~Truthy(Props(e).width) /\ ~Truthy(Props(e).height)
    THEN [width |-> Props(e).clientWidth, height |-> Props(e).clientHeight]
    ELSE [width |-> Props(e).width, height |-> Props(e).height]

\* C14: in a gesture with angle # 0, the size, top and left a move leaves are
\* determined by the start pointer, the top and left the block had when the
\* gesture started, the base size and the move's own event, whatever earlier
\* moves of the gesture applied; a move changes nothing of the captured session.
C14_MoveDependsOnBaselineOnly ==
    [][ \A e \in Elements, p \in Pointers, direction \in Directions :
          GestureMove(e, p[1], p[2], direction) /\ Props(e).angle # 0 =>
            LET d == getResizedWidthAndHeight(p[1], p[2], Props(e).angle,
                                              lastSeenX, lastSeenY, direction)
                base == GestureBase(e)
                appliedWidth == appliedSize(base.width, d.deltaW, Props(e).minWidth)
                appliedHeight == appliedSize(base.height, d.deltaH, Props(e).minHeight)
                pos == updatedPosition(base.width, base.height, appliedWidth, appliedHeight,
                                       Props(e).angle, startDom.left, startDom.top)
            IN  /\ dom'[e] = [ top |-> pos.top, left |-> pos.left,
                               width |-> appliedWidth, height |-> appliedHeight ]
                /\ UNCHANGED moduleVars ]_vars

\* A move of a gesture on the rotated block has left it at another width, top
\* and left than the gesture started with.
C14_Witness ==
    /\ call.op = "resize"
    /\ active = call.el
    /\ Props(call.el).angle # 0
    /\ Finite(lastMove.x, lastMove.y)
    /\ dom[call.el].width # Props(call.el).width
    /\ dom[call.el].top # startDom.top
    /\ dom[call.el].left # startDom.left
    /\ gestures = 2

\* C15: in a gesture with angle # 0, a move that applies the base width and
\* height leaves the block's top and left exactly as they were when the
\* gesture started.
C15_ZeroCorrectionKeepsPosition ==
    [][ \A e \in Elements, p \in Pointers, direction \in Directions :
          ( /\ GestureMove(e, p[1], p[2], direction)
            /\ Props(e).angle # 0
            /\ dom'[e].width = GestureBase(e).width
            /\ dom'[e].height = GestureBase(e).height )
          => /\ dom'[e].top = startDom.top
             /\ dom'[e].left = startDom.left ]_vars

\* C16: a move with angle # 0 writes the left that lies the horizontal
\* correction, multiplied by appliedHeight / 60 when the applied height is
\* below 60 and as it is otherwise, before the captured left, and the top that
\* lies the vertical correction, never scaled, after the captured top.
C16_SmallHeightScalesLeftOnly ==
    [][ \A e \in Elements, p \in Pointers, direction \in Directions :
          GestureMove(e, p[1], p[2], direction) /\ Props(e).angle # 0 =>
            LET base == GestureBase(e)
                appliedWidth == dom'[e].width
                appliedHeight == dom'[e].height
                radianAngle == getRadianFromDeg(Props(e).angle)
                initialPosition == getBlockPositioning(base.width, base.height, radianAngle)
                resizedPosition == getBlockPositioning(appliedWidth, appliedHeight, radianAngle)
                diffLeft == Sub(resizedPosition.left, initialPosition.left)
                diffTop == Sub(resizedPosition.top, initialPosition.top)
                factor == IF Lt(appliedHeight, Num(60))
                          THEN Div(appliedHeight, Num(60)) ELSE Num(1)
                originalLeft == getPixelsFromPercentage("x", parseInt(blockElementLeft))
                originalTop == getPixelsFromPercentage("y", parseInt(blockElementTop))
            IN  /\ dom'[e].left =
                     getPercentageFromPixels("x", Sub(originalLeft, Mul(diffLeft, factor)))
                /\ dom'[e].top =
                     getPercentageFromPixels("y", Add(originalTop, diffTop)) ]_vars

\* A move of the rotated block has applied a height between its minimum and 60
\* and written a left and a top other than the captured ones.
C16_Witness ==
    /\ call.op = "resize"
    /\ active = call.el
    /\ Props(call.el).angle # 0
    /\ Lt(Props(call.el).minHeight, dom[call.el].height)
    /\ Lt(dom[call.el].height, Num(60))
    /\ dom[call.el].left # parseInt(blockElementLeft)
    /\ dom[call.el].top # parseInt(blockElementTop)

====
